---- MODULE Spec2Model ----
(***************************************************************************)
(* The real-time audio pipeline of the chat client: AudioManager of        *)
(* frontend/src/utils/audio.js.                                            *)
(*                                                                         *)
(* Playback: playPCM (byte aligner + 16-bit decoder) feeds audioQueue,     *)
(* the ScriptProcessorNode callback drains it through the linear           *)
(* interpolation resampler, stopPlayback clears everything.               *)
(* Capture: startRecording / stopRecording, _downsampleBuffer and          *)
(* _floatTo16BitPCM.                                                       *)
(*                                                                         *)
(* Conventions.                                                            *)
(*  - null is the empty tuple <<>> and a non-null array a is <<a>>, so     *)
(*    that null and a zero-length array stay different values.             *)
(*  - A node or stream reference is a positive id; 0 is null/undefined.    *)
(*  - A decoded sample int16/32768.0 is kept as its numerator v, with the  *)
(*    ordinal e of the stopPlayback epoch in which its playPCM call was    *)
(*    made (e is bookkeeping only, the code never reads it).               *)
(*  - An output sample is kept as the numerator v of v/(32768*sampleRate), *)
(*    which represents leftover[floor]*(1-alpha)+leftover[ceil]*alpha      *)
(*    exactly; w counts the writes to that position in this callback.      *)
(*  - Math.floor(x / ratio) and Math.floor(x * ratio) are computed on the  *)
(*    exact rationals; for the rates used here IEEE doubles give the same  *)
(*    integers.                                                            *)
(***************************************************************************)
EXTENDS Integers, Sequences, FiniteSets, TLC

VARIABLES
    am,          \* the AudioManager object: its fields (constructor, lines 6-26)
    ctx,         \* this.audioContext: [state, sampleRate]; state "none" = null
    ctlQueue,    \* suspend()/resume() requests the audio engine has not acted on yet
    awaiting,    \* async calls suspended at `await this.audioContext.resume()`
    gumPending,  \* startRecording calls suspended at `await getUserMedia(...)`
    graph,       \* audio graph: connected nodes, created ids, in-flight events
    lastOutput,  \* the output block of the latest playback callback
    hist,        \* bookkeeping: stream position, call counts, latest callback
    probe,       \* the latest application of a pure helper: its input and result
    chat,        \* the chat component: isInterrupted, audio messages being converted
    ws           \* the WebSocket connection logic: sockets, socket.value, reconnect timer

vars == <<am, ctx, ctlQueue, awaiting, gumPending, graph, lastOutput, hist, probe, chat, ws>>

----------------------------------------------------------------------------
(* Program constants *)

InputSampleRate == 32000
PcmScale == 32768
LoopGuardMax == 5000
ScriptBufferSize == 4096

(* Bounds of the model *)

MaxCalls == 2
MaxChunkBytes == 5
MaxStreamBytes == 8
MaxStops == 1
MaxRecCalls == 1
BlockLength == 2

\* sample rates the host may give the AudioContext (it is read, not assumed)
DeviceRates == {16000, 32000, 44100, 48000}

\* the inbound byte stream, delivered in order; chunk boundaries are arbitrary
StreamPattern == <<1, 0, 255, 255, 0, 128, 2, 1, 255, 127, 7, 0>>

StreamByte(k) == StreamPattern[((k - 1) % Len(StreamPattern)) + 1]

StreamSlice(pos, len) == [i \in 1..len |-> StreamByte(pos + i)]

----------------------------------------------------------------------------
(* Helpers *)

Null == <<>>
Some(x) == <<x>>
NoRef == 0

Min(a, b) == IF a < b THEN a ELSE b
Max(a, b) == IF a > b THEN a ELSE b

\* Math.floor(p / q) for q > 0
FloorDiv(p, q) == p \div q

\* new Int16Array(chunk)[i]: little-endian, two's complement
Int16LE(lo, hi) ==
    LET u == lo + 256 * hi
    IN  IF u >= PcmScale THEN u - 2 * PcmScale ELSE u

\* ArrayBuffer.prototype.slice(from, to) with 0-based offsets
Slice(buf, from, to) == SubSeq(buf, from + 1, to)

----------------------------------------------------------------------------
(* Constructor *)

NewManager ==
    [ isRecording      |-> FALSE,
      mediaStream      |-> NoRef,
      recorderProcessor|-> NoRef,
      inputSource      |-> NoRef,
      processor        |-> NoRef,
      playerProcessor  |-> NoRef,
      audioQueue       |-> <<>>,
      isPlaying        |-> FALSE,
      resampleLeftover |-> Null,
      byteLeftover     |-> Null ]

NoContext == [state |-> "none", sampleRate |-> 0]

EmptyGraph ==
    [ created   |-> 0,      \* playback processors created so far (ids 1..created)
      streams   |-> 0,      \* media streams (with their capture nodes) acquired so far
      players   |-> {},     \* playback processors connected to the destination
      stray     |-> {},     \* disconnected playback processors with an event in flight
      capturers |-> {},     \* capture processors connected into the graph
      tracks    |-> {} ]    \* media streams whose tracks are live

\* no chat component is mounted, no connection logic has run
NoChat == [component |-> "none"]
NoSocket == [socket |-> NoRef]

NewHist ==
    [ pos      |-> 0,       \* bytes of the stream handed to playPCM so far
      calls    |-> 0,       \* playPCM calls made
      recCalls |-> 0,       \* startRecording calls made
      recStops |-> 0,       \* stopRecording calls made
      recStopAt |-> 0,      \* startRecording calls made when stopRecording was last called
      epoch    |-> 0,       \* stopPlayback calls made
      stopAt   |-> 0,       \* playPCM calls made when stopPlayback was last called
      given    |-> 0,       \* bytes passed to playPCM since creation / last stop
      fed      |-> 0,       \* bytes the aligner received since creation / last stop
      pushed   |-> 0,       \* samples appended to audioQueue since then
      cb       |-> Null,    \* the latest callback: its path, its epoch, its loop iterations
      tick     |-> 0,       \* parity of the callbacks counted
      interp   |-> 0,       \* output samples produced by interpolation, counted up to a cap
      recOutcome |-> "none", \* how the latest settled startRecording call ended
      reentered |-> FALSE,  \* startRecording was called while isRecording was true
      frames   |-> 0,       \* onData calls made, counted up to a cap
      blocks   |-> 0,       \* capture callbacks counted
      capTick  |-> 0,       \* parity of the onData calls counted
      afterStop |-> "none", \* "waiting": stopPlayback ran on an active recording, no onData since
      cap      |-> Null ]   \* the latest capture callback: what it was given and did

\* the world an operation acts on
World == [am |-> am, ctx |-> ctx, ctl |-> ctlQueue, graph |-> graph, hist |-> hist]

----------------------------------------------------------------------------
(* playPCM, lines 44-94 *)

\* _initAudioContext: the context is created once; the host picks its state
\* (autoplay policy) and its sample rate
InitAudioContext(c, st, rate) ==
    IF c.state = "none" THEN [state |-> st, sampleRate |-> rate] ELSE c

\* a variant of step 2 that cuts the odd trailing byte off without carrying it
AlignChunkDroppingOddByte(byteLeftover, data) ==
    LET joined == IF byteLeftover # Null THEN byteLeftover[1] \o data ELSE data
    IN  [ chunk        |-> Slice(joined, 0, Len(joined) - (Len(joined) % 2)),
          byteLeftover |-> Null ]

\* a variant of step 2 that joins the carried byte behind the new data
AlignChunkCarryBehind(byteLeftover, data) ==
    LET joined == IF byteLeftover # Null THEN data \o byteLeftover[1] ELSE data
        validLength == Len(joined) - 1
    IN  IF Len(joined) % 2 # 0
        THEN [ chunk        |-> Slice(joined, 0, validLength),
               byteLeftover |-> Some(Slice(joined, validLength, Len(joined))) ]
        ELSE [ chunk |-> joined, byteLeftover |-> Null ]

\* step 2: prepend the carried byte, split off an odd trailing byte
AlignChunk(byteLeftover, data) ==
    LET joined == IF byteLeftover # Null THEN byteLeftover[1] \o data ELSE data
        validLength == Len(joined) - 1
    IN  IF Len(joined) % 2 # 0
        THEN [ chunk        |-> Slice(joined, 0, validLength),
               byteLeftover |-> Some(Slice(joined, validLength, Len(joined))) ]
        ELSE [ chunk |-> joined, byteLeftover |-> Null ]

\* step 3: Int16 -> Float32 (numerators of x/32768.0)
DecodePCM(chunk, e) ==
    [i \in 1..(Len(chunk) \div 2) |->
        [v |-> Int16LE(chunk[2 * i - 1], chunk[2 * i]), e |-> e]]

\* _startStreamingPlayback, lines 96-109 and 222: install and connect the processor
\* a variant of _startStreamingPlayback without the assignment of line 98
StartStreamingPlaybackWithoutFlag(w) ==
    IF w.am.isPlaying THEN w
    ELSE LET node == w.graph.created + 1
         IN  [w EXCEPT
                !.ctl = IF w.ctx.state = "suspended" THEN Append(@, "resume") ELSE @,
                !.am.playerProcessor = node,
                !.graph.created = node,
                !.graph.players = @ \cup {node}]

StartStreamingPlayback(w) ==
    IF w.am.isPlaying THEN w
    ELSE LET node == w.graph.created + 1
         IN  [w EXCEPT
                !.am.isPlaying = TRUE,
                !.ctl = IF w.ctx.state = "suspended" THEN Append(@, "resume") ELSE @,
                !.am.playerProcessor = node,
                !.graph.created = node,
                !.graph.players = @ \cup {node}]

\* a variant of playPCM without the return of line 77
PlayPCMBodyWithoutEmptyReturn(w, data, e) ==
    LET al == AlignChunk(w.am.byteLeftover, data)
        w1 == [w EXCEPT !.am.byteLeftover = al.byteLeftover,
                        !.hist.fed = @ + Len(data)]
        float32Array == DecodePCM(al.chunk, e)
        w2 == [w1 EXCEPT !.am.audioQueue = Append(@, float32Array),
                         !.hist.pushed = @ + Len(float32Array)]
    IN  IF ~w2.am.isPlaying THEN StartStreamingPlayback(w2) ELSE w2

\* the part of playPCM after the await: align, decode, enqueue, start
PlayPCMBody(w, data, e) ==
    LET al == AlignChunk(w.am.byteLeftover, data)
        w1 == [w EXCEPT !.am.byteLeftover = al.byteLeftover,
                        !.hist.fed = @ + Len(data)]
    IN  IF Len(al.chunk) = 0 THEN w1
        ELSE LET float32Array == DecodePCM(al.chunk, e)
                 w2 == [w1 EXCEPT !.am.audioQueue = Append(@, float32Array),
                                  !.hist.pushed = @ + Len(float32Array)]
             IN  IF ~w2.am.isPlaying THEN StartStreamingPlayback(w2) ELSE w2

----------------------------------------------------------------------------
(* stopPlayback, lines 225-239, and stopRecording, lines 300-317 *)

\* a variant of stopPlayback without the test of line 226
PlayerGuardAbsent(a) == TRUE

\* `if (this.playerProcessor)`
PlayerGuard(a) == a.playerProcessor # NoRef

\* `if (this.audioContext && this.audioContext.state === 'running')`
ContextRunningGuard(c) ==
    IF c.state # "none" THEN c.state = "running" ELSE FALSE

\* calling .disconnect() on null would throw before anything is cleared
StopPlaybackThrows(w) == PlayerGuard(w.am) /\ w.am.playerProcessor = NoRef

\* a variant of stopPlayback that drops the reference without disconnect()
StopPlaybackNotDisconnecting(w) ==
    LET w2 == [w EXCEPT !.am.playerProcessor = NoRef,
                        !.am.isPlaying = FALSE,
                        !.am.audioQueue = <<>>,
                        !.am.resampleLeftover = Null,
                        !.am.byteLeftover = Null,
                        !.hist.fed = 0,
                        !.hist.pushed = 0]
    IN  IF ContextRunningGuard(w.ctx)
        THEN [w2 EXCEPT !.ctl = Append(@, "suspend")]
        ELSE w2

\* a variant of stopPlayback without line 233
StopPlaybackKeepingCarry(w) ==
    LET node == w.am.playerProcessor
        w1   == IF PlayerGuard(w.am)
                THEN [w EXCEPT
                        !.graph.players = @ \ {node},
                        !.graph.stray = IF node \in w.graph.players /\ w.ctx.state = "running"
                                        THEN @ \cup {node} ELSE @,
                        !.am.playerProcessor = NoRef]
                ELSE w
        w2   == [w1 EXCEPT !.am.isPlaying = FALSE,
                           !.am.audioQueue = <<>>,
                           !.am.resampleLeftover = Null,
                           !.hist.fed = 0,
                           !.hist.pushed = 0]
    IN  IF ContextRunningGuard(w.ctx)
        THEN [w2 EXCEPT !.ctl = Append(@, "suspend")]
        ELSE w2

StopPlaybackOn(w) ==
    LET node == w.am.playerProcessor
        w1   == IF PlayerGuard(w.am)
                THEN [w EXCEPT
                        !.graph.players = @ \ {node},
                        !.graph.stray = IF node \in w.graph.players /\ w.ctx.state = "running"
                                        THEN @ \cup {node} ELSE @,
                        !.am.playerProcessor = NoRef]
                ELSE w
        w2   == [w1 EXCEPT !.am.isPlaying = FALSE,
                           !.am.audioQueue = <<>>,
                           !.am.resampleLeftover = Null,
                           !.am.byteLeftover = Null,
                           !.hist.fed = 0,
                           !.hist.pushed = 0]
    IN  IF StopPlaybackThrows(w) THEN w
        ELSE IF ContextRunningGuard(w.ctx)
             THEN [w2 EXCEPT !.ctl = Append(@, "suspend")]
             ELSE w2

\* `if (this.mediaStream)`, `if (this.processor)`, `if (this.inputSource)`
StreamGuard(a) == a.mediaStream # NoRef
ProcessorGuard(a) == a.processor # NoRef
SourceGuard(a) == a.inputSource # NoRef

\* calling a method on null would throw
StopRecordingThrows(w) ==
    \/ StreamGuard(w.am) /\ w.am.mediaStream = NoRef
    \/ ProcessorGuard(w.am) /\ w.am.processor = NoRef
    \/ SourceGuard(w.am) /\ w.am.inputSource = NoRef

StopRecordingOn(w) ==
    LET w0 == [w EXCEPT !.am.isRecording = FALSE]
        w1 == IF StreamGuard(w.am)
              THEN [w0 EXCEPT !.graph.tracks = @ \ {w.am.mediaStream},
                              !.am.mediaStream = NoRef]
              ELSE w0
        w2 == IF ProcessorGuard(w.am)
              THEN [w1 EXCEPT !.graph.capturers = @ \ {w.am.processor},
                              !.am.processor = NoRef]
              ELSE w1
        w3 == IF SourceGuard(w.am) THEN [w2 EXCEPT !.am.inputSource = NoRef] ELSE w2
    IN  IF StopRecordingThrows(w) THEN w0 ELSE w3

----------------------------------------------------------------------------
(* playerProcessor.onaudioprocess, lines 112-220 *)

Unwritten == [v |-> 0, w |-> 0, src |-> {}]

\* a fresh output block of n positions, none written yet
FreshBlock(n) == [i \in 1..n |-> Unwritten]

\* outputData[i] = val
Store(cell, val, src) == [v |-> val, w |-> cell.w + 1, src |-> src]

\* a variant of the silence fill that starts one position late
FillSilenceFromNext(out, from) ==
    [j \in 1..Len(out) |-> IF j > from + 1 THEN Store(out[j], 0, {}) ELSE out[j]]

\* a variant of the silence fill that starts at the first position
FillSilenceWholeBlock(out, from) ==
    [j \in 1..Len(out) |-> Store(out[j], 0, {})]

\* `for (let i = from; i < outputLength; i++) outputData[i] = 0`
FillSilence(out, from) ==
    [j \in 1..Len(out) |-> IF j > from THEN Store(out[j], 0, {}) ELSE out[j]]

\* `!this.resampleLeftover || this.resampleLeftover.length === 0`
LeftoverEmpty(lo) == lo = Null \/ Len(lo[1]) = 0

\* Math.floor(inputAvailable / ratio), ratio = inputSampleRate / sampleRate
OutputCanGenerate(inputAvailable, rate) ==
    FloorDiv(inputAvailable * rate, InputSampleRate)

\* Math.floor(processCount * ratio)
InputConsumed(processCount, rate) ==
    FloorDiv(processCount * InputSampleRate, rate)

\* lines 196-203 for one i: floor and clamped ceil index (0-based) and the value
IdxFloor(i, rate) == FloorDiv(i * InputSampleRate, rate)

\* a variant of line 199 without the Math.min
IdxCeilUnclamped(i, rate, len) == IdxFloor(i, rate) + 1

IdxCeil(i, rate, len) == Min(IdxFloor(i, rate) + 1, len - 1)

\* both indices of step i lie within the leftover
IndexInside(i, rate, len) ==
    /\ IdxFloor(i, rate) \in 0..(len - 1)
    /\ IdxCeil(i, rate, len) \in 0..(len - 1)

\* this.resampleLeftover[idx]: an index outside the array reads undefined,
\* kept as a sample of no chunk (e = -1)
ReadSample(buf, idx) ==
    IF idx \in 0..(Len(buf) - 1) THEN buf[idx + 1] ELSE [v |-> 0, e |-> 0 - 1]

\* a variant of lines 201-202 with the two weights exchanged
InterpCellWeightsExchanged(cell, buf, i, rate) ==
    LET rem == (i * InputSampleRate) % rate
        a   == ReadSample(buf, IdxFloor(i, rate))
        b   == ReadSample(buf, IdxCeil(i, rate, Len(buf)))
    IN  Store(cell, a.v * rem + b.v * (rate - rem),
              {b.e} \cup (IF rem > 0 THEN {a.e} ELSE {}))

InterpCell(cell, buf, i, rate) ==
    LET rem == (i * InputSampleRate) % rate        \* alpha = rem / rate
        a   == ReadSample(buf, IdxFloor(i, rate))
        b   == ReadSample(buf, IdxCeil(i, rate, Len(buf)))
    IN  Store(cell, a.v * (rate - rem) + b.v * rem,
              {a.e} \cup (IF rem > 0 THEN {b.e} ELSE {}))

\* lines 195-207: `for (let i = 0; i < processCount; i++)`, here for i in lo..hi.
\* The range is halved so that the evaluation stays shallow, and the block
\* written by the first half is a value before the second half starts.
RECURSIVE Interpolate(_, _, _, _, _, _)
Interpolate(out, outputIndex, lo, hi, buf, rate) ==
    IF lo > hi THEN out
    ELSE IF lo = hi
         THEN [out EXCEPT ![outputIndex + lo + 1] = InterpCell(@, buf, lo, rate)]
         ELSE LET mid == (lo + hi) \div 2
              IN  CHOOSE r \in { Interpolate(half, outputIndex, mid + 1, hi, buf, rate) :
                                   half \in {Interpolate(out, outputIndex, lo, mid, buf, rate)} } :
                      TRUE

\* the loop state at the top of `while (outputIndex < outputLength)`
LoopStart(a, n) ==
    [ queue       |-> a.audioQueue,
      leftover    |-> a.resampleLeftover,
      out         |-> FreshBlock(n),
      outputIndex |-> 0,
      loopGuard   |-> 0,
      done        |-> FALSE,      \* the callback has returned or left the loop
      tripped     |-> FALSE,      \* it left through the loopGuard break
      interp      |-> 0,          \* output samples produced by interpolation
      consumed    |-> 0,          \* input samples dropped from the front of leftover
      outside     |-> FALSE,      \* an interpolation step read outside the leftover
      noProgress  |-> FALSE,      \* an iteration went on to the next without output or shift
      stalled     |-> 0 ]         \* iterations that produced output and consumed none

\* the loopGuard test of lines 142-146
GuardExceeded(loopGuard) == loopGuard > LoopGuardMax

\* lines 212-218: drop inputConsumed samples from the front of the leftover
ConsumeInput(buf, inputConsumed) ==
    IF inputConsumed >= Len(buf) THEN Null
    ELSE Some(SubSeq(buf, inputConsumed + 1, Len(buf)))

\* lines 142-159 of an iteration: the guard, then the refill of an empty
\* leftover from the queue (or silence and return when the queue is empty too)
Refill(s) ==
    IF GuardExceeded(s.loopGuard + 1)
    THEN [s EXCEPT !.loopGuard = @ + 1, !.done = TRUE, !.tripped = TRUE]
    ELSE IF ~LeftoverEmpty(s.leftover)
    THEN [s EXCEPT !.loopGuard = @ + 1]
    ELSE IF Len(s.queue) > 0
    THEN [s EXCEPT !.loopGuard = @ + 1,
                   !.leftover = Some(Head(s.queue)),
                   !.queue = Tail(@)]
    ELSE [s EXCEPT !.loopGuard = @ + 1,
                   !.out = FillSilence(@, s.outputIndex),
                   !.done = TRUE]

\* a variant of lines 175-179 that reads the next buffer and leaves it queued
MergeNextLeavingQueued(s, buf) ==
    [s EXCEPT !.leftover = Some(buf \o Head(s.queue))]

\* lines 175-179: the next buffer is taken from the queue and joined behind
\* the leftover
MergeNext(s, buf) ==
    [s EXCEPT !.leftover = Some(buf \o Head(s.queue)),
              !.queue = Tail(@)]

\* lines 161-218 of an iteration: what the leftover can supply, the
\* interpolation, the consumption of input
Produce(s, rate) ==
    IF s.done THEN s
    ELSE
      LET buf == s.leftover[1]
          outputCanGenerate == OutputCanGenerate(Len(buf), rate)
          processCount == Min(Len(s.out) - s.outputIndex, outputCanGenerate)
          inputConsumed == InputConsumed(processCount, rate)
      IN  IF outputCanGenerate <= 0
          THEN IF Len(s.queue) > 0
               THEN \* lines 173-180
                    MergeNext(s, buf)
               ELSE \* lines 181-188
                    [s EXCEPT !.out = FillSilence(@, s.outputIndex),
                              !.leftover = Null,
                              !.done = TRUE]
          ELSE [s EXCEPT
                  !.out = Interpolate(@, s.outputIndex, 0, processCount - 1, buf, rate),
                  !.outputIndex = @ + processCount,
                  !.leftover = ConsumeInput(buf, inputConsumed),
                  !.interp = @ + processCount,
                  !.consumed = @ + Min(inputConsumed, Len(buf)),
                  !.outside = @ \/ \E i \in 0..(processCount - 1) :
                                       ~IndexInside(i, rate, Len(buf)),
                  !.stalled = @ + (IF inputConsumed = 0 THEN 1 ELSE 0)]

\* one iteration of the while loop, lines 141-219
LoopIteration(s, rate) ==
    IF s.done THEN s
    ELSE IF ~(s.outputIndex < Len(s.out)) THEN [s EXCEPT !.done = TRUE]
    ELSE CHOOSE r \in { [t EXCEPT !.noProgress =
                                     @ \/ ~(\/ t.done
                                            \/ t.outputIndex > s.outputIndex
                                            \/ Len(t.queue) < Len(s.queue))] :
                          t \in { Produce(u, rate) : u \in {Refill(s)} } } : TRUE

\* up to k iterations of the loop, halved in the same way
RECURSIVE RunLoop(_, _, _)
RunLoop(s, rate, k) ==
    IF k = 0 THEN s
    ELSE IF k = 1 THEN CHOOSE r \in { LoopIteration(t, rate) : t \in {s} } : TRUE
    ELSE CHOOSE r \in { IF t.done THEN t ELSE RunLoop(t, rate, k - (k \div 2)) :
                          t \in {RunLoop(s, rate, k \div 2)} } : TRUE

\* the handler on an output block of n positions: the final loop state
OnAudioProcess(a, rate, n) ==
    IF LeftoverEmpty(a.resampleLeftover) /\ Len(a.audioQueue) = 0
    THEN \* lines 122-132
         [LoopStart(a, n) EXCEPT !.out = FillSilence(@, 0), !.done = TRUE]
    ELSE RunLoop(LoopStart(a, n), rate, LoopGuardMax + 2)

----------------------------------------------------------------------------
(* _downsampleBuffer, lines 319-351.  A captured sample is an integer (the   *)
(* numerator of a fraction with a fixed denominator); an averaged output    *)
(* sample is kept as accum and count, with the input indices it read.       *)

\* Math.round(p / q) for p >= 0 and q > 0
RoundDiv(p, q) == FloorDiv(2 * p + q, 2 * q)

\* line 330: Math.round(buffer.length / sampleRateRatio)
NewLength(len, sampleRate, outSampleRate) == RoundDiv(len * outSampleRate, sampleRate)

\* a variant of line 337 with Math.floor in place of Math.round
NextOffsetBufferFloored(offsetResult, sampleRate, outSampleRate) ==
    FloorDiv((offsetResult + 1) * sampleRate, outSampleRate)

\* line 337: Math.round((offsetResult + 1) * sampleRateRatio)
NextOffsetBuffer(offsetResult, sampleRate, outSampleRate) ==
    RoundDiv((offsetResult + 1) * sampleRate, outSampleRate)

\* lines 339-343: the 0-based indices the inner loop reads
SpanRead(offsetBuffer, nextOffsetBuffer, len) ==
    {i \in offsetBuffer..(nextOffsetBuffer - 1) : i < len}

RECURSIVE Accumulate(_, _)
Accumulate(buffer, read) ==
    IF read = {} THEN 0
    ELSE LET i == CHOOSE j \in read : TRUE
         IN  buffer[i + 1] + Accumulate(buffer, read \ {i})

\* lines 336-348: the while loop from offsetResult on
RECURSIVE DownsampleLoop(_, _, _, _, _, _)
DownsampleLoop(buffer, sampleRate, outSampleRate, offsetResult, offsetBuffer, result) ==
    IF ~(offsetResult < NewLength(Len(buffer), sampleRate, outSampleRate)) THEN result
    ELSE LET nextOffsetBuffer == NextOffsetBuffer(offsetResult, sampleRate, outSampleRate)
             read == SpanRead(offsetBuffer, nextOffsetBuffer, Len(buffer))
         IN  DownsampleLoop(buffer, sampleRate, outSampleRate,
                            offsetResult + 1, nextOffsetBuffer,
                            Append(result, [ accum |-> Accumulate(buffer, read),
                                             count |-> Cardinality(read),
                                             read  |-> read ]))

\* the whole function: the input itself (lines 320-327) or the averaged result
\* a variant that lacks the early return of lines 324-327
DownsampleBufferResamplingUp(buffer, sampleRate, outSampleRate) ==
    IF outSampleRate = sampleRate
    THEN [ same |-> TRUE, result |-> buffer ]
    ELSE [ same |-> FALSE,
           result |-> DownsampleLoop(buffer, sampleRate, outSampleRate, 0, 0, <<>>) ]

DownsampleBuffer(buffer, sampleRate, outSampleRate) ==
    IF outSampleRate = sampleRate \/ outSampleRate > sampleRate
    THEN [ same |-> TRUE, result |-> buffer ]
    ELSE [ same |-> FALSE,
           result |-> DownsampleLoop(buffer, sampleRate, outSampleRate, 0, 0, <<>>) ]

----------------------------------------------------------------------------
(* _floatTo16BitPCM, lines 353-363, for one sample.  A float sample is the   *)
(* numerator n of n / GridDen.                                              *)

GridDen == 49152

NegativeScale == 32768
PositiveScale == 32767

\* a variant of line 358 that passes the sample on as it is
ClampAbsent(n) == n

\* Math.max(-1, Math.min(1, output[i]))
Clamp(n) == Max(0 - GridDen, Min(GridDen, n))

\* line 359, numerator over GridDen
ScaleSample(n) == IF n < 0 THEN n * NegativeScale ELSE n * PositiveScale

\* the integer part of p / q, rounding towards zero (ToNumber then truncate)
TruncDiv(p, q) == IF p >= 0 THEN p \div q ELSE 0 - ((0 - p) \div q)

\* DataView.setInt16: the integer modulo 2^16, read as a signed 16-bit value
ToInt16(k) ==
    LET m == k % (2 * PcmScale)
    IN  IF m >= PcmScale THEN m - 2 * PcmScale ELSE m

\* the two bytes written at i * 2, low byte first
Int16Bytes(v) ==
    LET u == v % (2 * PcmScale)
    IN  <<u % 256, u \div 256>>

FloatTo16BitPCM(n) == Int16Bytes(ToInt16(TruncDiv(ScaleSample(Clamp(n)), GridDen)))

----------------------------------------------------------------------------
(* The state machine *)

NoProbe == [op |-> "none"]

Init ==
    /\ am = NewManager
    /\ ctx = NoContext
    /\ ctlQueue = <<>>
    /\ awaiting = <<>>
    /\ gumPending = 0
    /\ graph = EmptyGraph
    /\ lastOutput = <<>>
    /\ hist = NewHist
    /\ chat = NoChat
    /\ ws = NoSocket
    /\ probe = NoProbe

Commit(w) ==
    /\ am' = w.am
    /\ ctx' = w.ctx
    /\ ctlQueue' = w.ctl
    /\ graph' = w.graph
    /\ hist' = w.hist

\* playPCM(data) is called with the next len bytes of the stream.  With the
\* context suspended the call stops at `await resume()` (line 49) and its
\* remainder runs when the engine has resumed; otherwise it runs to the end.
\* playPCM(data) up to its await, or to its end when it does not wait
PlayPCM(data, st, rate) ==
    /\ LET w0 == [World EXCEPT !.ctx = InitAudioContext(ctx, st, rate),
                               !.hist.pos = @ + Len(data),
                               !.hist.given = @ + Len(data),
                               !.hist.calls = @ + 1]
       IN  IF w0.ctx.state = "suspended"
           THEN /\ Commit([w0 EXCEPT !.ctl = Append(@, "resume")])
                /\ awaiting' = Append(awaiting,
                                      [kind |-> "play", data |-> data, e |-> hist.epoch])
           ELSE /\ Commit(PlayPCMBody(w0, data, hist.epoch))
                /\ awaiting' = awaiting
    /\ UNCHANGED <<gumPending, lastOutput, probe>>

\* playPCM is called with the next len bytes of the stream
PlayPCMCall(len, st, rate) ==
    /\ PlayPCM(StreamSlice(hist.pos, len), st, rate)
    /\ UNCHANGED <<chat, ws>>

\* the continuations of the calls waiting for resume(), in the order of the calls
RECURSIVE ResumeContinuations(_, _)
ResumeContinuations(w, pending) ==
    IF pending = <<>> THEN w
    ELSE LET p == Head(pending)
         IN  ResumeContinuations(
                 IF p.kind = "play" THEN PlayPCMBody(w, p.data, p.e) ELSE w,
                 Tail(pending))

NumRec(pending) == Cardinality({i \in 1..Len(pending) : pending[i].kind = "rec"})

\* how many of the waiting calls a resume request lets continue: the host
\* resolves the promise of that request alone (the oldest call waiting), or
\* the promises of all calls waiting at once
ResolvedNow(pending) == IF pending = <<>> THEN {0} ELSE {1, Len(pending)}

\* the audio engine acts on the oldest suspend()/resume() request: the state
\* attribute changes and promises of resume() are resolved
EngineStep ==
    /\ ctlQueue # <<>>
    /\ LET w0 == [World EXCEPT !.ctl = Tail(@)]
       IN  IF Head(ctlQueue) = "suspend"
           THEN /\ Commit([w0 EXCEPT !.ctx.state = "suspended"])
                /\ UNCHANGED <<awaiting, gumPending>>
           ELSE \E k \in ResolvedNow(awaiting) :
                  /\ Commit(ResumeContinuations(
                              [w0 EXCEPT !.ctx.state = "running"], SubSeq(awaiting, 1, k)))
                  /\ awaiting' = SubSeq(awaiting, k + 1, Len(awaiting))
                  /\ gumPending' = gumPending + NumRec(SubSeq(awaiting, 1, k))
    /\ UNCHANGED <<lastOutput, probe, chat, ws>>

\* which way the handler went
CallbackPath(a, r) ==
    IF LeftoverEmpty(a.resampleLeftover) /\ Len(a.audioQueue) = 0 THEN "idle"
    ELSE IF r.tripped THEN "guard" ELSE "loop"

\* the handler runs on a block of n positions; tick and cap say what is tallied
RunHandler(n, tick, cap) ==
    \E r \in {OnAudioProcess(am, ctx.sampleRate, n)} :
        /\ am' = [am EXCEPT !.audioQueue = r.queue,
                            !.resampleLeftover = r.leftover]
        /\ lastOutput' = r.out
        /\ hist' = [hist EXCEPT
                      !.cb = Some([path |-> CallbackPath(am, r), epoch |-> hist.epoch,
                                   iterations |-> r.loopGuard]),
                      !.tick = (@ + tick) % 2,
                      !.interp = Min(cap, @ + r.interp)]

\* the device asks the connected processor for a block
Callback(node, n, tick, cap) ==
    /\ ctx.state = "running"
    /\ node \in graph.players
    /\ RunHandler(n, tick, cap)
    /\ UNCHANGED <<ctx, ctlQueue, awaiting, gumPending, graph, probe, chat, ws>>

\* an audioprocess event queued before disconnect() is delivered after it
StrayCallback(node, n) ==
    /\ node \in graph.stray
    /\ RunHandler(n, 0, 0)
    /\ graph' = [graph EXCEPT !.stray = @ \ {node}]
    /\ UNCHANGED <<ctx, ctlQueue, awaiting, gumPending, probe, chat, ws>>

\* stopPlayback() with its bookkeeping
AfterStopPlayback(w) ==
    StopPlaybackOn([w EXCEPT !.hist.epoch = @ + 1,
                             !.hist.given = 0,
                             !.hist.afterStop =
                                 IF w.am.isRecording
                                    /\ w.am.processor \in w.graph.capturers
                                 THEN "waiting" ELSE @,
                             !.hist.stopAt = w.hist.calls])

StopPlayback ==
    /\ Commit(AfterStopPlayback(World))
    /\ UNCHANGED <<awaiting, gumPending, lastOutput, probe, chat, ws>>

\* startRecording up to its first await (lines 248-255)
StartRecordingCall(st, rate) ==
    /\ LET w0 == [World EXCEPT !.ctx = InitAudioContext(ctx, st, rate),
                               !.hist.recCalls = @ + 1,
                               !.hist.reentered = @ \/ am.isRecording]
       IN  IF w0.ctx.state = "suspended"
           THEN /\ Commit([w0 EXCEPT !.ctl = Append(@, "resume")])
                /\ awaiting' = Append(awaiting, [kind |-> "rec", data |-> <<>>, e |-> 0])
                /\ gumPending' = gumPending
           ELSE /\ Commit(w0)
                /\ awaiting' = awaiting
                /\ gumPending' = gumPending + 1
    /\ UNCHANGED <<lastOutput, probe, chat, ws>>

\* lines 256-292: the microphone is granted and the capture graph is built
RecordingGranted(w) ==
    LET stream == w.graph.streams + 1
    IN  [w EXCEPT !.am.mediaStream = stream,
                  !.am.isRecording = TRUE,
                  !.am.inputSource = stream,
                  !.am.processor = stream,
                  !.graph.streams = stream,
                  !.graph.tracks = @ \cup {stream},
                  !.graph.capturers = @ \cup {stream}]

\* a variant of startRecording that raises isRecording before the await of line 255
RecordingRejectedWhileFlagged(w) ==
    [w EXCEPT !.hist.recOutcome = "rejected", !.am.isRecording = TRUE]

\* lines 294-297: getUserMedia rejected, the error is rethrown to the caller
RecordingRejected(w) == [w EXCEPT !.hist.recOutcome = "rejected"]

\* getUserMedia settles: granted, or rejected (nothing of the manager is set)
GetUserMediaSettles(granted) ==
    /\ gumPending > 0
    /\ gumPending' = gumPending - 1
    /\ Commit(IF granted
              THEN RecordingGranted([World EXCEPT !.hist.recOutcome = "granted"])
              ELSE RecordingRejected(World))
    /\ UNCHANGED <<awaiting, lastOutput, probe, chat, ws>>

\* stopRecording() with its bookkeeping
AfterStopRecording(w) ==
    StopRecordingOn([w EXCEPT !.hist.recStops = @ + 1,
                              !.hist.recStopAt = w.hist.recCalls,
                              !.hist.afterStop = "none"])

StopRecording ==
    /\ Commit(AfterStopRecording(World))
    /\ UNCHANGED <<awaiting, gumPending, lastOutput, probe, chat, ws>>

\* a block of len captured samples
CapturePattern == <<3, -1, 4, 1, -5, 9, 2, -6>>
CaptureBlock(len) == [i \in 1..len |-> CapturePattern[((i - 1) % Len(CapturePattern)) + 1]]

\* the denominator of the captured samples of CapturePattern
CaptureDen == 8

\* `const targetSampleRate = 16000`
TargetSampleRate == 16000

\* what _downsampleBuffer returned, each sample as accum / count
ReturnedSamples(ret) ==
    IF ret.same
    THEN [i \in 1..Len(ret.result) |-> [accum |-> ret.result[i], count |-> 1]]
    ELSE [i \in 1..Len(ret.result) |->
             [accum |-> ret.result[i].accum, count |-> ret.result[i].count]]

\* lines 358-360 for the sample accum / (count * CaptureDen); 0 when count = 0
EncodeAveraged(cell) ==
    IF cell.count = 0 THEN Int16Bytes(0)
    ELSE LET den    == cell.count * CaptureDen
             num    == Max(0 - den, Min(den, cell.accum))
             scaled == IF num < 0 THEN num * NegativeScale ELSE num * PositiveScale
         IN  Int16Bytes(ToInt16(TruncDiv(scaled, den)))

\* _floatTo16BitPCM on a whole buffer: two bytes per sample, in order
FloatTo16BitPCMFrame(samples) ==
    [j \in 1..(2 * Len(samples)) |-> EncodeAveraged(samples[(j + 1) \div 2])[((j - 1) % 2) + 1]]

\* a variant of the capture handler without the byteLength test of line 280
CaptureHandlerAlwaysEmitting(a, rate, inputData) ==
    IF ~a.isRecording
    THEN [ran |-> FALSE, count |-> 0, pcmData |-> <<>>, emitted |-> FALSE]
    ELSE LET downsampledData == ReturnedSamples(
                                    DownsampleBuffer(inputData, rate, TargetSampleRate))
             pcmData == FloatTo16BitPCMFrame(downsampledData)
         IN  [ ran     |-> TRUE,
               count   |-> Len(downsampledData),
               pcmData |-> pcmData,
               emitted |-> TRUE ]

\* processor.onaudioprocess, lines 268-283, on one input block; each
\* intermediate buffer is computed once and held as a sequence
CaptureHandler(a, rate, inputData) ==
    IF ~a.isRecording
    THEN [ran |-> FALSE, count |-> 0, pcmData |-> <<>>, emitted |-> FALSE]
    ELSE CHOOSE r \in
           { [ ran     |-> TRUE,
               count   |-> Len(f.downsampledData),
               pcmData |-> f.pcmData,
               emitted |-> Len(f.pcmData) > 0 ] :      \* onData(pcmData) was called
             f \in { [ downsampledData |-> downsampledData,
                       pcmData |-> FloatTo16BitPCMFrame(downsampledData) \o <<>> ] :
                     downsampledData \in
                       { ReturnedSamples(ret) \o <<>> :
                         ret \in {DownsampleBuffer(inputData, rate, TargetSampleRate)} } } }
           : TRUE

\* the engine hands a connected capture processor a block of len samples;
\* blocks, tick and cap say what is tallied
CaptureCallback(node, len, blocks, tick, cap) ==
    /\ ctx.state = "running"
    /\ node \in graph.capturers
    /\ \E r \in {CaptureHandler(am, ctx.sampleRate, CaptureBlock(len))} :
          hist' = [hist EXCEPT
                     !.cap = Some([ node |-> node, len |-> len,
                                    recording |-> am.isRecording, ret |-> r ]),
                     !.blocks = @ + blocks,
                     !.capTick = (@ + (IF r.emitted THEN tick ELSE 0)) % 2,
                     !.afterStop = IF r.emitted THEN "none" ELSE @,
                     !.frames = Min(cap, @ + (IF r.emitted THEN 1 ELSE 0))]
    /\ UNCHANGED <<am, ctx, ctlQueue, awaiting, gumPending, graph, lastOutput, probe, chat, ws>>

\* _downsampleBuffer is applied to the input held in probe
DownsampleCall ==
    /\ probe.op = "downsampleInput"
    /\ probe' = [ op |-> "downsample",
                  buffer |-> probe.buffer,
                  sampleRate |-> probe.sampleRate,
                  outSampleRate |-> probe.outSampleRate,
                  ret |-> DownsampleBuffer(probe.buffer, probe.sampleRate,
                                           probe.outSampleRate) ]
    /\ UNCHANGED <<am, ctx, ctlQueue, awaiting, gumPending, graph, lastOutput, hist, chat, ws>>

\* _floatTo16BitPCM is applied to the one-sample input held in probe
FloatTo16BitPCMCall ==
    /\ probe.op = "pcmInput"
    /\ probe' = [ op |-> "pcm", x |-> probe.x, bytes |-> FloatTo16BitPCM(probe.x) ]
    /\ UNCHANGED <<am, ctx, ctlQueue, awaiting, gumPending, graph, lastOutput, hist, chat, ws>>

CtxStates == {"running", "suspended"}

----------------------------------------------------------------------------
(* Spec: playback.  The inbound stream in chunks of any length, the engine, *)
(* the device callback on blocks of BlockLength positions, and stop.        *)

Next ==
    \/ \E len \in 0..MaxChunkBytes, st \in CtxStates, rate \in DeviceRates :
          /\ hist.calls < MaxCalls
          /\ hist.pos + len <= MaxStreamBytes
          /\ PlayPCMCall(len, st, rate)
    \/ EngineStep
    \/ \E node \in graph.players : Callback(node, BlockLength, 0, 0)
    \/ \E node \in graph.stray : StrayCallback(node, BlockLength)
    \/ hist.epoch < MaxStops /\ StopPlayback

Spec == Init /\ [][Next]_vars

----------------------------------------------------------------------------
(* SpecStarve: playback that is never stopped.  While a processor is       *)
(* connected to a running context the device keeps asking it for blocks,   *)
(* and the engine acts on every request it was given: that is the         *)
(* fairness stated.  The callbacks are counted modulo 2.                    *)

StarveCallback == \E node \in graph.players : Callback(node, BlockLength, 1, 0)

StarveNext ==
    \/ \E len \in 0..MaxChunkBytes, st \in CtxStates, rate \in DeviceRates :
          /\ hist.calls < MaxCalls
          /\ hist.pos + len <= MaxStreamBytes
          /\ PlayPCMCall(len, st, rate)
    \/ EngineStep
    \/ StarveCallback

SpecStarve ==
    Init /\ [][StarveNext]_vars /\ WF_vars(StarveCallback) /\ WF_vars(EngineStep)

----------------------------------------------------------------------------
(* SpecScenario: one buffer is enqueued on a running context and then only *)
(* callbacks on blocks of ScenarioBlock positions follow; the output       *)
(* samples produced by interpolation are counted up to InterpCap.          *)

ScenarioBlock == 128
ScenarioSamples == 256
ScenarioSpread == 24
InterpCap == 1024

ScenarioNext ==
    \/ \E k \in (ScenarioSamples - ScenarioSpread)..ScenarioSamples, rate \in DeviceRates :
          /\ hist.calls = 0
          /\ PlayPCMCall(2 * k, "running", rate)
    \/ \E node \in graph.players :
          /\ hist.interp < InterpCap
          /\ Callback(node, ScenarioBlock, 0, InterpCap)

SpecScenario == Init /\ [][ScenarioNext]_vars

----------------------------------------------------------------------------
(* SpecGuard: the configured block of 4096 positions.  GuardChunks chunks   *)
(* of two bytes arrive in a burst before the device asks for the next      *)
(* block; the context runs at GuardRate.                                   *)

GuardChunks == 2510
GuardRate == 22050

GuardNext ==
    \/ /\ hist.calls < GuardChunks
       /\ PlayPCMCall(2, "running", GuardRate)
    \/ \E node \in graph.players :
          /\ hist.calls = GuardChunks
          /\ Callback(node, ScriptBufferSize, 0, 0)

SpecGuard == Init /\ [][GuardNext]_vars

----------------------------------------------------------------------------
(* SpecLife: playback and capture together, with the stops called at any    *)
(* moment, any number of times up to the bounds.                            *)

MaxLifeCalls == 1
MaxLifeStops == 2
MaxRecStops == 2

\* chunk lengths and device rates of this specification
LifeChunks == {1, 2}
LifeRates == {32000, 44100}

LifeNext ==
    \/ \E len \in LifeChunks, st \in CtxStates, rate \in LifeRates :
          /\ hist.calls < MaxLifeCalls
          /\ PlayPCMCall(len, st, rate)
    \/ EngineStep
    \/ \E node \in graph.players : Callback(node, BlockLength, 0, 0)
    \/ \E node \in graph.stray : StrayCallback(node, BlockLength)
    \/ hist.epoch < MaxLifeStops /\ StopPlayback
    \/ \E st \in CtxStates, rate \in LifeRates :
          /\ hist.recCalls < MaxRecCalls
          /\ StartRecordingCall(st, rate)
    \/ \E granted \in BOOLEAN : GetUserMediaSettles(granted)
    \/ hist.recStops < MaxRecStops /\ StopRecording

SpecLife == Init /\ [][LifeNext]_vars

----------------------------------------------------------------------------
(* SpecFeed: the stream is fed in chunks of any length and nothing is       *)
(* played or stopped, so the queue holds every buffer appended so far.      *)

FeedNext ==
    \/ \E len \in 0..MaxChunkBytes, st \in CtxStates, rate \in DeviceRates :
          /\ hist.calls < MaxCalls + 1
          /\ hist.pos + len <= MaxStreamBytes
          /\ PlayPCMCall(len, st, rate)
    \/ EngineStep

SpecFeed == Init /\ [][FeedNext]_vars

----------------------------------------------------------------------------
(* SpecOrder: the stream is fed in up to three chunks, on a context that    *)
(* runs at the source rate, so that each output sample is one input sample; *)
(* the output samples are counted up to OrderCap.                           *)

OrderCap == 4

OrderNext ==
    \/ \E len \in 1..MaxChunkBytes, st \in CtxStates :
          /\ hist.calls < MaxCalls + 1
          /\ hist.pos + len <= MaxStreamBytes
          /\ PlayPCMCall(len, st, InputSampleRate)
    \/ EngineStep
    \/ \E node \in graph.players :
          /\ hist.interp < OrderCap
          /\ Callback(node, BlockLength, 0, OrderCap)

SpecOrder == Init /\ [][OrderNext]_vars

----------------------------------------------------------------------------
(* SpecRec: capture.  startRecording calls, the engine, the settling of    *)
(* getUserMedia, capture callbacks on blocks of up to MaxCaptureLength      *)
(* samples, and stopRecording.                                             *)

MaxCapStarts == 2
MaxCapStops == 1
MaxCapBlocks == 2
MaxCaptureLength == 4

RecRates == {16000, 44100, 48000}

RecNext ==
    \/ \E st \in CtxStates, rate \in RecRates :
          /\ hist.recCalls < MaxCapStarts
          /\ StartRecordingCall(st, rate)
    \/ EngineStep
    \/ \E granted \in BOOLEAN : GetUserMediaSettles(granted)
    \/ \E node \in graph.capturers, len \in 0..MaxCaptureLength :
          /\ hist.blocks < MaxCapBlocks
          /\ CaptureCallback(node, len, 1, 0, MaxCapBlocks)
    \/ hist.recStops < MaxCapStops /\ StopRecording

SpecRec == Init /\ [][RecNext]_vars

----------------------------------------------------------------------------
(* SpecShare: playback and capture on the one AudioContext of the manager.  *)
(* The device delivers capture blocks for as long as the context runs and  *)
(* the capture processor is connected; queued suspend and resume requests  *)
(* take effect.  Calls of the application are not obliged to happen.       *)

ShareCapture ==
    \E node \in graph.capturers : CaptureCallback(node, MaxCaptureLength, 0, 1, 0)

ShareNext ==
    \/ \E st \in CtxStates, rate \in LifeRates :
          /\ hist.recCalls < MaxRecCalls
          /\ StartRecordingCall(st, rate)
    \/ \E len \in LifeChunks, st \in CtxStates, rate \in LifeRates :
          /\ hist.calls < MaxLifeCalls
          /\ PlayPCMCall(len, st, rate)
    \/ EngineStep
    \/ \E granted \in BOOLEAN : GetUserMediaSettles(granted)
    \/ ShareCapture
    \/ hist.recStops < MaxCapStops /\ StopRecording
    \/ hist.epoch < MaxCapStops /\ StopPlayback

SpecShare ==
    Init /\ [][ShareNext]_vars /\ WF_vars(ShareCapture) /\ WF_vars(EngineStep)

----------------------------------------------------------------------------
(* SpecDown: _downsampleBuffer on a block of up to MaxDownLength samples,   *)
(* for each pair of native and target rate.                                 *)

MaxDownLength == 12

InitDown ==
    /\ am = NewManager
    /\ ctx = NoContext
    /\ ctlQueue = <<>>
    /\ awaiting = <<>>
    /\ gumPending = 0
    /\ graph = EmptyGraph
    /\ lastOutput = <<>>
    /\ hist = NewHist
    /\ chat = NoChat
    /\ ws = NoSocket
    /\ \E len \in 0..MaxDownLength, sampleRate \in DeviceRates, outSampleRate \in DeviceRates :
          probe = [ op |-> "downsampleInput",
                    buffer |-> CaptureBlock(len),
                    sampleRate |-> sampleRate,
                    outSampleRate |-> outSampleRate ]

SpecDown == InitDown /\ [][DownsampleCall]_vars

----------------------------------------------------------------------------
(* SpecPCM: _floatTo16BitPCM on each sample n / GridDen of [-1, 1].         *)

InitPCM ==
    /\ am = NewManager
    /\ ctx = NoContext
    /\ ctlQueue = <<>>
    /\ awaiting = <<>>
    /\ gumPending = 0
    /\ graph = EmptyGraph
    /\ lastOutput = <<>>
    /\ hist = NewHist
    /\ chat = NoChat
    /\ ws = NoSocket
    /\ \E n \in (0 - GridDen)..GridDen : probe = [op |-> "pcmInput", x |-> n]

SpecPCM == InitPCM /\ [][FloatTo16BitPCMCall]_vars

----------------------------------------------------------------------------
(* SpecClamp: _floatTo16BitPCM on samples within and beyond [-1, 1], up to  *)
(* OverRange grid steps past either end.                                    *)

OverRange == 512

InitClamp ==
    /\ am = NewManager
    /\ ctx = NoContext
    /\ ctlQueue = <<>>
    /\ awaiting = <<>>
    /\ gumPending = 0
    /\ graph = EmptyGraph
    /\ lastOutput = <<>>
    /\ hist = NewHist
    /\ chat = NoChat
    /\ ws = NoSocket
    /\ \E n \in (0 - GridDen - OverRange)..(GridDen + OverRange) :
          probe = [op |-> "pcmInput", x |-> n]

SpecClamp == InitClamp /\ [][FloatTo16BitPCMCall]_vars

----------------------------------------------------------------------------
(* Properties of playback, under Spec *)

Silent(cell) == cell.w = 1 /\ cell.v = 0 /\ cell.src = {}

AllSilent(out) == \A i \in 1..Len(out) : Silent(out[i])

Retained(a) == LeftoverEmpty(a.resampleLeftover) /\ Len(a.audioQueue) = 0

\* a step of the playback handler, of a connected or of a disconnected node
HandlerStep ==
    \/ \E node \in graph.players : Callback(node, BlockLength, 0, 0)
    \/ \E node \in graph.stray : StrayCallback(node, BlockLength)

\* C1: whenever the bytes handed to the aligner since creation or the last
\* stop add up to an even number, the samples appended to the queue are
\* exactly half that number and no byte is carried over.
C1_EvenTotalFullyDecoded ==
    hist.fed % 2 = 0 => /\ 2 * hist.pushed = hist.fed
                        /\ am.byteLeftover = Null

\* a 3-byte chunk then a 5-byte chunk: buffers of 1 and 3 samples, nothing carried
C1_Witness ==
    /\ hist.fed = 8 /\ hist.pushed = 4 /\ hist.calls = 2
    /\ Len(am.audioQueue) = 2
    /\ Len(am.audioQueue[1]) = 1 /\ Len(am.audioQueue[2]) = 3
    /\ am.byteLeftover = Null

\* C3: a callback that starts with an empty queue and an empty leftover
\* writes 0 to every position of its block and leaves queue and leftover as
\* they were.
C3_IdleCallbackSilent ==
    [][HandlerStep /\ Retained(am)
         => /\ Len(lastOutput') = BlockLength
            /\ AllSilent(lastOutput')
            /\ am'.audioQueue = am.audioQueue
            /\ am'.resampleLeftover = am.resampleLeftover]_vars

\* an idle callback has run while playback is installed
C3_Witness ==
    /\ hist.cb # Null /\ hist.cb[1].path = "idle"
    /\ am.isPlaying
    /\ AllSilent(lastOutput) /\ Len(lastOutput) = BlockLength

\* C8: a callback never writes a sample of a chunk whose playPCM call was
\* made before a stopPlayback call that has happened since.
C8_NoSampleFromBeforeStop ==
    hist.cb # Null =>
        \A i \in 1..Len(lastOutput) :
            \A e \in lastOutput[i].src : e >= hist.cb[1].epoch

\* C10: a callback that runs after stopPlayback, with no playPCM call made
\* since, writes only zeros and leaves queue, leftover and carried byte cleared.
C10_CallbackAfterStopSilent ==
    [][HandlerStep /\ hist.epoch > 0 /\ hist.calls = hist.stopAt
         => /\ AllSilent(lastOutput')
            /\ am'.audioQueue = <<>>
            /\ am'.resampleLeftover = Null
            /\ am'.byteLeftover = Null]_vars

\* C2: every callback writes each position of its block exactly once.
C2_EveryPositionWritten ==
    \A i \in 1..Len(lastOutput) : lastOutput[i].w = 1

\* C4: source rate 32000, device rate 48000, blocks of 128, one buffer of 256
\* samples: the output samples produced by interpolation over all callbacks
\* number 384, give or take one.
C4_TotalWithinOne ==
    (ctx.sampleRate = 48000 /\ hist.pos = 2 * 256)
        => /\ hist.interp <= 385
           /\ (hist.cb # Null /\ hist.cb[1].path = "idle" => hist.interp >= 383)

\* C5: with no further chunk and callbacks firing, queue and leftover end up
\* empty and stay so.
C5_EventuallyDrained == <>[]Retained(am)

----------------------------------------------------------------------------
(* Properties of capture and of the stops *)

\* C6: when the native rate is not below the target rate, every input index
\* 0..length-1 is read for exactly one output sample of _downsampleBuffer.
C6_SpansCoverInput ==
    (probe.op = "downsample" /\ ~probe.ret.same) =>
        \A i \in 0..(Len(probe.buffer) - 1) :
            Cardinality({k \in 1..Len(probe.ret.result) : i \in probe.ret.result[k].read}) = 1

\* C7: for a sample x in [-1, 1], the 16-bit integer written by
\* _floatTo16BitPCM, divided by 32768, is within 1/32768 of x.
C7_RoundTripWithinOneStep ==
    probe.op = "pcm" =>
        LET decoded == Int16LE(probe.bytes[1], probe.bytes[2])
            diff    == decoded * GridDen - probe.x * PcmScale
        IN  diff <= GridDen /\ 0 - diff <= GridDen

\* what a caller can observe of the manager, its context and the audio graph
Observable(w) == [am |-> w.am, ctx |-> w.ctx, graph |-> w.graph]

\* C9: in every state neither stop throws, and each stop applied twice leaves
\* what it leaves when applied once.
C9_StopsSafeAndIdempotent ==
    /\ ~StopPlaybackThrows(World)
    /\ ~StopRecordingThrows(World)
    /\ Observable(StopPlaybackOn(StopPlaybackOn(World))) = Observable(StopPlaybackOn(World))
    /\ Observable(StopRecordingOn(StopRecordingOn(World))) = Observable(StopRecordingOn(World))

\* both stops have been called twice before any audio was started
C9_Witness ==
    /\ hist.epoch = 2 /\ hist.recStops = 2
    /\ hist.calls = 0 /\ hist.recCalls = 0
    /\ ctx.state = "none"
    /\ am = NewManager /\ graph = EmptyGraph

----------------------------------------------------------------------------
(* Properties of the second group *)

\* C11: a stopPlayback call leaves the processor it found disconnected and
\* unreferenced, isPlaying false, the queue empty, leftover and carried byte
\* null, and has asked a context whose state read running to suspend.
C11_StopPlaybackClears ==
    [][StopPlayback
         => /\ am'.playerProcessor = NoRef
            /\ am.playerProcessor \notin graph'.players
            /\ am'.isPlaying = FALSE
            /\ am'.audioQueue = <<>>
            /\ am'.resampleLeftover = Null
            /\ am'.byteLeftover = Null
            /\ (ctx.state = "running"
                  => /\ Len(ctlQueue') = Len(ctlQueue) + 1
                     /\ ctlQueue'[Len(ctlQueue')] = "suspend")]_vars

\* stopPlayback has just run on a pipeline that was playing an odd number of
\* bytes on a running context
C11_Witness ==
    /\ hist.epoch = 1 /\ hist.calls = 1 /\ hist.pos = 3
    /\ graph.created = 1 /\ graph.players = {}
    /\ am.playerProcessor = NoRef /\ ~am.isPlaying
    /\ am.audioQueue = <<>> /\ am.byteLeftover = Null
    /\ ctx.state = "running" /\ ctlQueue = <<"suspend">>

\* C12: at most one playback processor is connected, and it is the one the
\* manager references; no step creates a processor while playback is running,
\* and a playPCM call made then, on a running context, hands its bytes to the
\* aligner and leaves the queue no shorter.
C12_OneProcessor ==
    [][/\ Cardinality(graph'.players) <= 1
       /\ graph'.players \subseteq {am'.playerProcessor}
       /\ graph'.created <= graph.created + 1
       /\ (am.isPlaying => graph'.created = graph.created)
       /\ (hist'.calls = hist.calls + 1 /\ am.isPlaying /\ ctx.state = "running"
             => /\ hist'.fed = hist.fed + (hist'.pos - hist.pos)
                /\ Len(am'.audioQueue) >= Len(am.audioQueue)
                /\ graph'.players = graph.players)]_vars

\* two playPCM calls on a running context: one processor, two queued buffers
C12_Witness ==
    /\ hist.calls = 2 /\ hist.epoch = 0
    /\ am.isPlaying /\ Len(am.audioQueue) = 2
    /\ graph.created = 1 /\ graph.players = {1} /\ am.playerProcessor = 1

\* C13: when startRecording has been called during an active recording,
\* there is still at most one capture processor connected and at most one
\* media stream live.
C13_SingleCapture ==
    hist.reentered => /\ Cardinality(graph.capturers) <= 1
                      /\ Cardinality(graph.tracks) <= 1

\* the step in which a startRecording call learns that getUserMedia rejected
RejectStep == GetUserMediaSettles(FALSE)

\* C14: when getUserMedia rejects, the call ends rejected and the manager and
\* the audio graph are as before: a manager that was not recording has
\* isRecording false and no stream, source or capture processor.
C14_DeniedLeavesIdle ==
    [][RejectStep
         => /\ hist'.recOutcome = "rejected"
            /\ am' = am /\ graph' = graph
            /\ (~am.isRecording
                  => /\ ~am'.isRecording
                     /\ am'.mediaStream = am.mediaStream
                     /\ am'.inputSource = am.inputSource
                     /\ am'.processor = am.processor)]_vars

\* the only startRecording call made was denied
C14_Witness ==
    /\ hist.recCalls = 1 /\ hist.recOutcome = "rejected" /\ gumPending = 0
    /\ ~am.isRecording
    /\ am.mediaStream = NoRef /\ am.inputSource = NoRef /\ am.processor = NoRef
    /\ graph.capturers = {} /\ graph.tracks = {}

\* the downsampled sample count for a block of len samples at the given rate
ExpectedCount(len, rate) ==
    IF rate <= TargetSampleRate THEN len ELSE NewLength(len, rate, TargetSampleRate)

\* C19: a capture callback that runs while recording is active builds a frame
\* of twice the downsampled sample count bytes and calls onData once with
\* it, except that it makes no call when the frame is empty.
C19_OneFramePerBlock ==
    [][(hist'.blocks = hist.blocks + 1 /\ am.isRecording)
         => LET c == hist'.cap[1]
            IN  /\ c.ret.ran
                /\ c.ret.count = ExpectedCount(c.len, ctx.sampleRate)
                /\ Len(c.ret.pcmData) = 2 * c.ret.count
                /\ Len(c.ret.pcmData) % 2 = 0
                /\ c.ret.emitted = (Len(c.ret.pcmData) > 0)
                /\ hist'.frames = hist.frames + (IF Len(c.ret.pcmData) > 0 THEN 1 ELSE 0)]_vars

\* a block of 4 samples at 48000 Hz gave a frame of one sample, and a block
\* of one sample gave an empty frame that was not sent
C19_Witness ==
    /\ hist.cap # Null /\ hist.cap[1].recording
    /\ hist.cap[1].len = 1 /\ ctx.sampleRate = 48000
    /\ hist.cap[1].ret.count = 0 /\ ~hist.cap[1].ret.emitted
    /\ hist.blocks = 2 /\ hist.frames = 1

\* no playPCM call is waiting for resume()
NoPlayPending == \A i \in 1..Len(awaiting) : awaiting[i].kind # "play"

\* C15: whenever no playPCM call is in progress, the carried byte is absent
\* or exactly one byte, and it is present exactly when the bytes passed to
\* playPCM since creation or the last stopPlayback are odd in number.
C15_CarryIffOdd ==
    NoPlayPending =>
        /\ (am.byteLeftover = Null \/ Len(am.byteLeftover[1]) = 1)
        /\ (am.byteLeftover # Null) = (hist.given % 2 = 1)

\* the buffers of the queue laid end to end
RECURSIVE Flatten(_)
Flatten(q) == IF q = <<>> THEN <<>> ELSE Head(q) \o Flatten(Tail(q))

\* C16: the samples appended to the queue, in order, are the consecutive
\* byte pairs of the stream read as little-endian signed 16-bit integers
\* (over 32768), and a byte held back is the stream's next byte.
C16_QueueIsDecodedStream ==
    LET got == Flatten(am.audioQueue)
    IN  /\ Len(got) = hist.fed \div 2
        /\ \A i \in 1..Len(got) :
              got[i].v = Int16LE(StreamByte(2 * i - 1), StreamByte(2 * i))
        /\ (am.byteLeftover # Null => am.byteLeftover[1] = <<StreamByte(hist.fed)>>)

\* chunks of 1, 2 and 3 bytes: the carried byte was the low byte twice
C16_Witness ==
    /\ hist.calls = 3 /\ hist.fed = 6 /\ awaiting = <<>>
    /\ Len(am.audioQueue) = 2
    /\ Len(am.audioQueue[1]) = 1 /\ Len(am.audioQueue[2]) = 2
    /\ am.audioQueue[2][2].v = 0 - PcmScale
    /\ am.byteLeftover = Null

\* C17: no callback leaves its loop through the iteration guard.
C17_GuardNeverTrips ==
    hist.cb # Null => hist.cb[1].path # "guard"

\* C20: with the native rate equal to the target rate or below it,
\* _downsampleBuffer returns its input: same length, same values, same order.
C20_PassThrough ==
    (probe.op = "downsample" /\ probe.sampleRate <= probe.outSampleRate)
        => /\ probe.ret.same
           /\ Len(probe.ret.result) = Len(probe.buffer)
           /\ \A i \in 1..Len(probe.buffer) : probe.ret.result[i] = probe.buffer[i]

\* twelve samples captured at 16000 for a target of 32000 came back as given
C20_Witness ==
    /\ probe.op = "downsample"
    /\ probe.sampleRate = 16000 /\ probe.outSampleRate = 32000
    /\ Len(probe.buffer) = MaxDownLength
    /\ probe.ret.result = probe.buffer

\* C18: stopPlayback leaves the recording state as it was, and when it is
\* called during an active recording a further capture block is processed
\* and handed to onData (unless the recording is stopped).
C18_StopPlaybackLeavesCapture ==
    /\ [][(hist'.epoch = hist.epoch + 1) =>
              /\ am'.isRecording = am.isRecording
              /\ am'.processor = am.processor
              /\ graph'.capturers = graph.capturers]_vars
    /\ ((hist.afterStop = "waiting") ~> (hist.afterStop # "waiting"))

----------------------------------------------------------------------------
(* Properties of the third group *)

\* C21: _floatTo16BitPCM writes, low byte first, a 16-bit integer that is
\* -32768 for a sample at or below -1, 32767 for a sample at or above 1, and
\* otherwise the sample times 32768 (negative) or 32767 (non-negative) with
\* its fraction cut off; no sample wraps around.
C21_ClampedScaledLittleEndian ==
    probe.op = "pcm" =>
        LET x == probe.x
            k == Int16LE(probe.bytes[1], probe.bytes[2])
        IN  /\ Len(probe.bytes) = 2
            /\ probe.bytes[1] \in 0..255 /\ probe.bytes[2] \in 0..255
            /\ probe.bytes[1] = k % 256
            /\ probe.bytes[2] = ((k - probe.bytes[1]) \div 256) % 256
            /\ (x <= 0 - GridDen => k = 0 - 32768)
            /\ (x >= GridDen => k = 32767)
            /\ (x < 0 /\ x > 0 - GridDen => k = 0 - (((0 - x) * 32768) \div GridDen))
            /\ (x >= 0 /\ x < GridDen => k = (x * 32767) \div GridDen)
            /\ (x < 0 => k <= 0) /\ (x >= 0 => k >= 0)

\* a sample above 1 was written as 32767: bytes 255, 127
C21_Witness ==
    /\ probe.op = "pcm" /\ probe.x = GridDen + OverRange
    /\ probe.bytes = <<255, 127>>

\* the samples held in the queue and in the leftover
RetainedSize(a) ==
    Len(Flatten(a.audioQueue))
      + (IF a.resampleLeftover = Null THEN 0 ELSE Len(a.resampleLeftover[1]))

\* C22: with no stop so far, the samples that leave queue and leftover in a
\* callback are exactly those the resampler consumed (lines 212-218), so a
\* leftover too short for one output sample is still held afterwards.
C22_NoUnreadInputLost ==
    [][HandlerStep /\ hist.epoch = 0
         => RetainedSize(am) - RetainedSize(am')
              = OnAudioProcess(am, ctx.sampleRate, BlockLength).consumed]_vars

\* C23: a callback that starts with at least one sample in the queue or the
\* leftover ends with fewer samples held there than it started with.
C23_CallbackShrinksRetained ==
    [][HandlerStep /\ RetainedSize(am) > 0
         => RetainedSize(am') < RetainedSize(am)]_vars

\* C24: while input has not run out (the latest callback went through the
\* loop and samples are still held), the input samples consumed so far and
\* the output samples produced so far times 32000 / sampleRate differ by
\* less than one sample.
C24_NoDrift ==
    (hist.cb # Null /\ hist.cb[1].path = "loop" /\ RetainedSize(am) > 0)
        => LET consumed == hist.pushed - RetainedSize(am)
               d == consumed * ctx.sampleRate - hist.interp * InputSampleRate
           IN  d < ctx.sampleRate /\ 0 - d < ctx.sampleRate

\* C25: when a callback that found input leaves its loop with positions
\* still to write, every position from the write position on holds 0,
\* written once, and every position before it still holds the sample
\* interpolated for it, written once.
C25_RemainderSilenced ==
    [][HandlerStep /\ ~Retained(am)
         => LET r == OnAudioProcess(am, ctx.sampleRate, BlockLength)
            IN  (r.outputIndex < BlockLength /\ ~r.tripped)
                  => /\ \A j \in (r.outputIndex + 1)..BlockLength : Silent(lastOutput'[j])
                     /\ \A j \in 1..r.outputIndex :
                           /\ lastOutput'[j].w = 1
                           /\ lastOutput'[j].src # {}]_vars

\* at a ratio of 2, three samples gave one output sample; the sample left
\* over could give none and the rest of the block was filled with zeros
C25_Witness ==
    /\ ctx.sampleRate = 16000 /\ hist.pushed = 3 /\ hist.epoch = 0
    /\ hist.cb # Null /\ hist.cb[1].path = "loop"
    /\ lastOutput[1].w = 1 /\ lastOutput[1].src # {}
    /\ Silent(lastOutput[2])

\* the k-th sample of the stream, in the order its bytes were passed to playPCM
StreamSample(k) == Int16LE(StreamByte(2 * k - 1), StreamByte(2 * k))

\* the positions of the latest block that hold a sample read from a buffer
Played(out) == {i \in 1..Len(out) : out[i].src # {}}

\* C26: on a context running at the source rate, the samples a callback
\* writes are the next samples of the stream in the order in which their
\* bytes were passed to playPCM.
C26_ConsumedInCallOrder ==
    hist.interp < OrderCap =>
        LET cnt == Cardinality(Played(lastOutput))
        IN  \A i \in 1..cnt :
               lastOutput[i].v = StreamSample(hist.interp - cnt + i) * ctx.sampleRate

\* C27: in no interpolation step of a callback does the floor index or the
\* clamped ceil index fall outside 0..leftover.length-1.
C27_IndicesInsideLeftover ==
    [][HandlerStep /\ ~Retained(am)
         => ~OnAudioProcess(am, ctx.sampleRate, BlockLength).outside]_vars

\* a leftover of one sample gave two output samples at 32000/44100: the ceil
\* index of each step was clamped to 0
C27_Witness ==
    /\ hist.pushed = 1 /\ hist.epoch = 0 /\ ctx.sampleRate = 44100
    /\ hist.cb # Null /\ hist.cb[1].path = "loop"
    /\ lastOutput[1].src = {0} /\ lastOutput[2].src = {0}
    /\ am.resampleLeftover # Null /\ Len(am.resampleLeftover[1]) = 1

\* C28: every iteration of the fill loop that goes on to another one has
\* advanced the write position or taken a buffer from the queue, so the
\* iterations of a callback number at most the positions of the block plus
\* the buffers queued plus one, whatever the limit of the guard.
C28_IterationsProgress ==
    [][HandlerStep /\ ~Retained(am)
         => LET r == OnAudioProcess(am, ctx.sampleRate, BlockLength)
            IN  /\ ~r.noProgress
                /\ r.loopGuard <= BlockLength + Len(am.audioQueue) + 1]_vars

\* at a ratio of 2, two buffers of one sample: the first iteration joined
\* them, the second wrote one sample, the third found nothing and returned
C28_Witness ==
    /\ ctx.sampleRate = 16000 /\ hist.pushed = 2 /\ hist.epoch = 0
    /\ hist.cb # Null /\ hist.cb[1].iterations = 3
    /\ lastOutput[1].src # {} /\ Silent(lastOutput[2])
    /\ Retained(am)

\* the chunk, joined to the carried byte, has no complete byte pair
EmptyPrefix(byteLeftover, data) ==
    Len(data) = 0 \/ (Len(data) = 1 /\ byteLeftover = Null)

\* a playPCM call runs to its end without waiting
DirectPlayStep ==
    hist'.calls = hist.calls + 1 /\ awaiting' = awaiting

\* a resume request lets the one oldest waiting playPCM call run to its end
ResumedPlayStep ==
    /\ EngineStep
    /\ awaiting # <<>> /\ Len(awaiting') = Len(awaiting) - 1
    /\ Head(ctlQueue) = "resume"
    /\ Head(awaiting).kind = "play"

\* C29: a playPCM call whose chunk holds no complete byte pair (no bytes, or
\* one byte with none carried) leaves the queue, the leftover, isPlaying,
\* the playback processor and the audio graph as they were.
C29_EmptyPrefixChangesOnlyCarry ==
    [][(\/ DirectPlayStep
          /\ EmptyPrefix(am.byteLeftover, StreamSlice(hist.pos, hist'.pos - hist.pos))
        \/ ResumedPlayStep
          /\ EmptyPrefix(am.byteLeftover, Head(awaiting).data))
         => /\ am'.audioQueue = am.audioQueue
            /\ am'.resampleLeftover = am.resampleLeftover
            /\ am'.isPlaying = am.isPlaying
            /\ am'.playerProcessor = am.playerProcessor
            /\ graph' = graph]_vars

\* the only call so far passed a single byte: it is carried, nothing was
\* queued and no processor was created
C29_Witness ==
    /\ hist.calls = 1 /\ hist.pos = 1 /\ hist.epoch = 0 /\ awaiting = <<>>
    /\ am.byteLeftover = Some(<<StreamByte(1)>>)
    /\ am.audioQueue = <<>> /\ ~am.isPlaying
    /\ am.playerProcessor = NoRef /\ graph.created = 0

\* a capture callback hands a frame to onData
OnDataStep ==
    /\ hist'.blocks = hist.blocks + 1
    /\ hist'.cap # Null /\ hist'.cap[1].ret.emitted

\* C30: once stopRecording has been called, onData is handed a frame only
\* when startRecording has been called again after the last stopRecording.
C30_NoDataAfterStop ==
    [][OnDataStep /\ hist.recStops > 0 => hist.recCalls > hist.recStopAt]_vars

----------------------------------------------------------------------------
(* Properties of the fourth group *)

(* The same samples queued as one buffer and queued in pieces, played by    *)
(* the same callbacks.                                                      *)

MaxSplitSamples == 5
MaxSplitBlocks == 4

\* n decoded samples of the stream behind the first `from`, as one buffer
StreamBuffer(from, n) == [i \in 1..n |-> [v |-> StreamSample(from + i), e |-> 0]]

\* the first n samples of the stream as the buffers ending at the cut points
RECURSIVE SplitAt(_, _, _)
SplitAt(from, n, cuts) ==
    IF from >= n THEN <<>>
    ELSE LET to == CHOOSE c \in (cuts \cup {n}) :
                      c > from /\ \A d \in (cuts \cup {n}) : d > from => c <= d
         IN  <<StreamBuffer(from, to - from)>> \o SplitAt(to, n, cuts)

\* a manager that is playing with the given buffers queued
Queued(buffers) == [NewManager EXCEPT !.audioQueue = buffers, !.isPlaying = TRUE]

InitSplit ==
    /\ am = NewManager
    /\ ctx = NoContext
    /\ ctlQueue = <<>>
    /\ awaiting = <<>>
    /\ gumPending = 0
    /\ graph = EmptyGraph
    /\ lastOutput = <<>>
    /\ hist = NewHist
    /\ chat = NoChat
    /\ ws = NoSocket
    /\ \E rate \in DeviceRates, n \in 1..MaxSplitSamples :
       \E cuts \in SUBSET (1..(n - 1)) :
          probe = [ op       |-> "split",
                    rate     |-> rate,
                    cuts     |-> cuts,
                    whole    |-> Queued(SplitAt(0, n, {})),
                    parts    |-> Queued(SplitAt(0, n, cuts)),
                    outWhole |-> <<>>,
                    outParts |-> <<>>,
                    blocks   |-> 0 ]

\* the values a callback left in its output block
BlockValues(out) == [i \in 1..Len(out) |-> out[i].v]

\* the manager after a callback that ended in loop state r
AfterHandler(a, r) == [a EXCEPT !.audioQueue = r.queue, !.resampleLeftover = r.leftover]

\* the engine runs one callback on each of the two managers
SplitCallback ==
    /\ probe.op = "split"
    /\ probe.blocks < MaxSplitBlocks
    /\ \E rw \in {OnAudioProcess(probe.whole, probe.rate, BlockLength)},
          rp \in {OnAudioProcess(probe.parts, probe.rate, BlockLength)} :
          probe' = [probe EXCEPT
                      !.whole = AfterHandler(@, rw),
                      !.parts = AfterHandler(@, rp),
                      !.outWhole = @ \o BlockValues(rw.out),
                      !.outParts = @ \o BlockValues(rp.out),
                      !.blocks = @ + 1]
    /\ UNCHANGED <<am, ctx, ctlQueue, awaiting, gumPending, graph, lastOutput, hist, chat, ws>>

SpecSplit == InitSplit /\ [][SplitCallback]_vars

\* C31: the callbacks write the same output values whether the samples were
\* queued as one buffer or split into several buffers.
C31_OutputIndependentOfSplit ==
    probe.op = "split" => probe.outParts = probe.outWhole

\* the samples the manager holds for playback, in the order they were queued
RetainedSamples(a) ==
    (IF a.resampleLeftover = Null THEN <<>> ELSE a.resampleLeftover[1])
      \o Flatten(a.audioQueue)

\* C32: on a context running at the source rate a callback writes the
\* samples at the front of the leftover and queue, each once and unchanged,
\* writes zeros behind them, and leaves the rest of the samples held.
C32_EqualRatesCopyQueuedSamples ==
    [][HandlerStep /\ ctx.sampleRate = InputSampleRate
         => LET held == RetainedSamples(am)
                n    == Min(BlockLength, Len(held))
            IN  /\ Len(lastOutput') = BlockLength
                /\ \A i \in 1..BlockLength :
                      /\ lastOutput'[i].w = 1
                      /\ lastOutput'[i].v =
                            IF i <= n THEN held[i].v * ctx.sampleRate ELSE 0
                /\ RetainedSamples(am') = SubSeq(held, n + 1, Len(held))]_vars

\* at the source rate a callback has written the only sample of one buffer
\* and the first sample of the next in two iterations, and the third sample
\* is still held
C32_Witness ==
    /\ ctx.sampleRate = InputSampleRate /\ hist.epoch = 0
    /\ hist.cb # Null /\ hist.cb[1].path = "loop" /\ hist.pushed = 3
    /\ hist.cb[1].iterations = 2
    /\ lastOutput[1].v = StreamSample(1) * ctx.sampleRate
    /\ lastOutput[2].v = StreamSample(2) * ctx.sampleRate
    /\ RetainedSamples(am) = StreamBuffer(2, 1)

\* the input indices from round(k * r) up to, not including, the smaller of
\* round((k + 1) * r) and the input length, r = sampleRate / outSampleRate
MeanSpan(k, len, sampleRate, outSampleRate) ==
    { i \in 0..(len - 1) :
        /\ RoundDiv(k * sampleRate, outSampleRate) <= i
        /\ i < RoundDiv((k + 1) * sampleRate, outSampleRate) }

\* C33: for a native rate above the target rate _downsampleBuffer returns
\* round(length / r) samples, and output sample k is the sum of the input
\* span MeanSpan(k) divided by its size, which is never zero.
C33_MeanOfNonEmptySpan ==
    (probe.op = "downsample" /\ probe.sampleRate > probe.outSampleRate) =>
        LET len == Len(probe.buffer)
            res == probe.ret.result
        IN  /\ ~probe.ret.same
            /\ Len(res) = RoundDiv(len * probe.outSampleRate, probe.sampleRate)
            /\ \A k \in 0..(Len(res) - 1) :
                  LET span == MeanSpan(k, len, probe.sampleRate, probe.outSampleRate)
                  IN  /\ span # {}
                      /\ res[k + 1].read = span
                      /\ res[k + 1].count = Cardinality(span)
                      /\ res[k + 1].accum = Accumulate(probe.buffer, span)

\* 12 samples taken from 44100 Hz to 16000 Hz give 4 samples, the last one
\* the mean of the span cut off by the end of the input
C33_Witness ==
    /\ probe.op = "downsample"
    /\ probe.sampleRate = 44100 /\ probe.outSampleRate = 16000
    /\ Len(probe.buffer) = 12 /\ Len(probe.ret.result) = 4
    /\ probe.ret.result[1].read = {0, 1, 2}
    /\ probe.ret.result[4].read = {8, 9, 10}

(* SpecRearm: playback that is stopped once and fed again.  The device      *)
(* keeps asking a connected processor of a running context for blocks and  *)
(* the engine acts on every request it was given; the rates are those at    *)
(* which a leftover always shrinks.                                         *)

MaxRearmCalls == 2

RearmChunks == {2, 4}
RearmRates == {16000, 32000}

RearmCallback == \E node \in graph.players : Callback(node, BlockLength, 1, 0)

RearmNext ==
    \/ \E len \in RearmChunks, st \in CtxStates, rate \in RearmRates :
          /\ hist.calls < MaxRearmCalls
          /\ PlayPCMCall(len, st, rate)
    \/ EngineStep
    \/ RearmCallback
    \/ hist.epoch < MaxStops /\ StopPlayback

SpecRearm ==
    Init /\ [][RearmNext]_vars /\ WF_vars(RearmCallback) /\ WF_vars(EngineStep)

\* samples queued by a playPCM call made after the latest stopPlayback are held
HeldAfterStop ==
    hist.epoch > 0 /\ hist.calls > hist.stopAt /\ RetainedSize(am) > 0

\* C34: when samples of a playPCM call made after stopPlayback are held,
\* they are eventually all played by the one connected processor of a
\* running context.
C34_PlayedAfterStop ==
    HeldAfterStop ~> /\ RetainedSize(am) = 0
                     /\ ctx.state = "running"
                     /\ graph.players = {am.playerProcessor}
                     /\ am.playerProcessor # NoRef

\* C35: isPlaying is true exactly when playerProcessor refers to a processor.
C35_PlayingIffProcessor ==
    am.isPlaying <=> am.playerProcessor # NoRef

\* playback was stopped and started again: the second processor is installed
C35_Witness ==
    /\ hist.epoch = 1 /\ hist.calls = 2
    /\ am.isPlaying /\ am.playerProcessor = 2 /\ graph.players = {2}

(* SpecRound: each 16-bit value is decoded as playPCM decodes it and the    *)
(* float is encoded as _floatTo16BitPCM encodes it.  The decoded float      *)
(* v / 32768 is exact, and is kept as its numerator v.                      *)

\* lines 358-360 for the float v / 32768
FloatTo16BitPCMDecoded(v) ==
    LET s == Max(0 - PcmScale, Min(PcmScale, v))
    IN  Int16Bytes(ToInt16(TruncDiv(ScaleSample(s), PcmScale)))

InitRound ==
    /\ am = NewManager
    /\ ctx = NoContext
    /\ ctlQueue = <<>>
    /\ awaiting = <<>>
    /\ gumPending = 0
    /\ graph = EmptyGraph
    /\ lastOutput = <<>>
    /\ hist = NewHist
    /\ chat = NoChat
    /\ ws = NoSocket
    /\ \E v \in (0 - PcmScale)..(PcmScale - 1) :
          probe = [op |-> "int16Input", chunk |-> Int16Bytes(v)]

\* the two bytes are decoded (lines 79-84) and the float is encoded again
RoundTripCall ==
    /\ probe.op = "int16Input"
    /\ \E float32Array \in {DecodePCM(probe.chunk, 0)} :
          probe' = [ op      |-> "roundTrip",
                     chunk   |-> probe.chunk,
                     decoded |-> float32Array[1].v,
                     bytes   |-> FloatTo16BitPCMDecoded(float32Array[1].v) ]
    /\ UNCHANGED <<am, ctx, ctlQueue, awaiting, gumPending, graph, lastOutput, hist, chat, ws>>

SpecRound == InitRound /\ [][RoundTripCall]_vars

\* C36: a 16-bit sample that is decoded and encoded again has its two bytes
\* back.
C36_DecodeEncodeIsIdentity ==
    probe.op = "roundTrip" => probe.bytes = probe.chunk

----------------------------------------------------------------------------
(* The chat component and its WebSocket connection logic:                   *)
(* ChatInterface.vue with its own connectWebSocket, and the container       *)
(* component (src/unnamed/part_004) with the useWebSocket composable        *)
(* (src/unnamed/part_006).  A socket is a position of ws.readyState, a      *)
(* timer a positive id; an inbound audio message is a Blob whose            *)
(* conversion to an ArrayBuffer is awaited by the message handler.          *)

MaxSockets == 3
MaxAudioMessages == 2
MaxChatStops == 2

Components == {"ChatInterface", "ChatContainer"}

\* byte lengths of the inbound audio messages
MessageLengths == {0, 2}

NewChat(component) ==
    [ component     |-> component,
      isInterrupted |-> FALSE,
      converting    |-> <<>>,     \* byte lengths of the Blobs being converted
      arrived       |-> 0,        \* audio messages received
      muted         |-> FALSE ]   \* stopInteraction ran, no message sent or hot reload since

NewSocket ==
    [ socket            |-> NoRef,
      isConnected       |-> FALSE,
      reconnectInterval |-> NoRef,
      timers            |-> {},     \* interval timers that are running
      timersMade        |-> 0,
      readyState        |-> <<>>,   \* of every WebSocket created so far
      disconnected      |-> FALSE ] \* disconnect() has been called

InitChat ==
    /\ am = NewManager
    /\ ctx = NoContext
    /\ ctlQueue = <<>>
    /\ awaiting = <<>>
    /\ gumPending = 0
    /\ graph = EmptyGraph
    /\ lastOutput = <<>>
    /\ hist = NewHist
    /\ probe = NoProbe
    /\ \E component \in Components : chat = NewChat(component)
    /\ ws = NewSocket

AudioVars == <<am, ctx, ctlQueue, awaiting, gumPending, graph, lastOutput, hist, probe>>

\* connect / connectWebSocket: a new WebSocket replaces socket.value
Connect(s) ==
    [s EXCEPT !.readyState = Append(@, "connecting"),
              !.socket = Len(s.readyState) + 1]

\* socket.onopen
OnOpen(s) ==
    [s EXCEPT !.isConnected = TRUE,
              !.timers = @ \ {s.reconnectInterval},
              !.reconnectInterval = NoRef]

\* socket.onclose
OnClose(s) ==
    IF s.reconnectInterval = NoRef
    THEN [s EXCEPT !.isConnected = FALSE,
                   !.timersMade = @ + 1,
                   !.timers = @ \cup {s.timersMade + 1},
                   !.reconnectInterval = s.timersMade + 1]
    ELSE [s EXCEPT !.isConnected = FALSE]

\* onMounted: the component connects
Mount ==
    /\ ws.readyState = <<>> /\ ~ws.disconnected
    /\ ws' = Connect(ws)
    /\ UNCHANGED <<AudioVars, chat>>

\* the connection of socket k is established and its open event is handled
SocketOpens(k) ==
    /\ ws.readyState[k] = "connecting"
    /\ ws' = OnOpen([ws EXCEPT !.readyState[k] = "open"])
    /\ UNCHANGED <<AudioVars, chat>>

\* socket k fails, is closed by the server, or finishes closing; its close
\* event is handled
SocketCloses(k) ==
    /\ ws.readyState[k] \in {"connecting", "open", "closing"}
    /\ ws' = OnClose([ws EXCEPT !.readyState[k] = "closed"])
    /\ UNCHANGED <<AudioVars, chat>>

\* the reconnect interval fires
ReconnectTick(t) ==
    /\ t \in ws.timers
    /\ Len(ws.readyState) < MaxSockets
    /\ ws' = Connect(ws)
    /\ UNCHANGED <<AudioVars, chat>>

\* WebSocket.close(): a socket that is not closed starts closing
CloseSocket(readyState, k) ==
    IF k # NoRef /\ readyState[k] \in {"connecting", "open"}
    THEN [readyState EXCEPT ![k] = "closing"]
    ELSE readyState

\* disconnect() of the composable
Disconnect(s) ==
    [s EXCEPT !.readyState = CloseSocket(@, s.socket),
              !.timers = @ \ {s.reconnectInterval},
              !.reconnectInterval = NoRef,
              !.disconnected = TRUE]

\* onUnmounted of the container component
Unmount ==
    /\ chat.component = "ChatContainer"
    /\ ws.readyState # <<>> /\ ~ws.disconnected
    /\ hist.epoch < MaxChatStops
    /\ ws' = Disconnect(ws)
    /\ Commit(AfterStopRecording(AfterStopPlayback(World)))
    /\ UNCHANGED <<awaiting, gumPending, lastOutput, probe, chat>>

\* socket.onmessage for a binary message, up to `await event.data.arrayBuffer()`
AudioMessage(k, len) ==
    /\ ws.readyState[k] = "open"
    /\ chat.arrived < MaxAudioMessages
    /\ chat' = [chat EXCEPT
                  !.arrived = @ + 1,
                  !.converting =
                      IF chat.component = "ChatInterface" /\ chat.isInterrupted
                      THEN @
                      ELSE Append(@, len)]
    /\ UNCHANGED <<AudioVars, ws>>

\* the handler of the i-th waiting message sees isInterrupted after the conversion
ChecksAfterConversion(c) == c.component = "ChatContainer"

\* the conversion of the i-th waiting message is done and its handler goes on
BlobConverted(i, st) ==
    /\ i \in 1..Len(chat.converting)
    /\ chat' = [chat EXCEPT !.converting =
                               SubSeq(@, 1, i - 1) \o SubSeq(@, i + 1, Len(@))]
    /\ IF (ChecksAfterConversion(chat) /\ chat.isInterrupted) \/ chat.converting[i] = 0
       THEN UNCHANGED AudioVars
       ELSE PlayPCM(StreamSlice(hist.pos, chat.converting[i]), st, InputSampleRate)
    /\ UNCHANGED ws

\* stopInteraction
StopInteraction ==
    /\ ~ws.disconnected
    /\ hist.epoch < MaxChatStops
    /\ chat' = [chat EXCEPT !.isInterrupted = TRUE, !.muted = TRUE]
    /\ Commit(IF chat.component = "ChatInterface"
              THEN AfterStopRecording(AfterStopPlayback(World))
              ELSE AfterStopPlayback(World))
    /\ UNCHANGED <<awaiting, gumPending, lastOutput, probe, ws>>

\* sendMessage with a non-empty input on a connected page
SendMessage ==
    /\ ~ws.disconnected
    /\ ws.isConnected
    /\ chat' = [chat EXCEPT !.isInterrupted = FALSE, !.muted = FALSE]
    /\ UNCHANGED <<AudioVars, ws>>

\* performHotReload on a connected page
PerformHotReload ==
    /\ ~ws.disconnected
    /\ ws.isConnected
    /\ hist.epoch < MaxChatStops
    /\ chat' = [chat EXCEPT !.isInterrupted = FALSE, !.muted = FALSE]
    /\ Commit(IF chat.component = "ChatInterface"
              THEN AfterStopRecording(AfterStopPlayback(World))
              ELSE AfterStopPlayback(World))
    /\ UNCHANGED <<awaiting, gumPending, lastOutput, probe, ws>>

ChatNext ==
    \/ Mount
    \/ \E k \in 1..Len(ws.readyState) : SocketOpens(k)
    \/ \E k \in 1..Len(ws.readyState) : SocketCloses(k)
    \/ \E t \in ws.timers : ReconnectTick(t)
    \/ Unmount
    \/ \E k \in 1..Len(ws.readyState), len \in MessageLengths : AudioMessage(k, len)
    \/ \E i \in 1..Len(chat.converting), st \in CtxStates : BlobConverted(i, st)
    \/ StopInteraction
    \/ SendMessage
    \/ PerformHotReload
    \/ EngineStep

SpecChat == InitChat /\ [][ChatNext]_vars

\* C37: while the page is muted by stopInteraction (no message sent and no
\* hot reload since) no playPCM call is made.
C37_NoChunkPlayedWhileInterrupted ==
    [][hist'.calls = hist.calls + 1 => ~chat.muted]_vars

\* C38: once disconnect() has been called no reconnect timer is running,
\* none is started and no further WebSocket is created.
C38_NoReconnectAfterDisconnect ==
    [][ws'.disconnected
         => /\ ws'.timers = {}
            /\ ws'.reconnectInterval = NoRef
            /\ (ws.disconnected => Len(ws'.readyState) = Len(ws.readyState))]_vars

\* the sockets that are connecting or open
LiveSockets(s) ==
    {k \in 1..Len(s.readyState) : s.readyState[k] \in {"connecting", "open"}}

\* C39: at most one WebSocket created by the connection logic is connecting
\* or open.
C39_AtMostOneLiveSocket ==
    ws.socket # NoRef => Cardinality(LiveSockets(ws)) <= 1

====
